---- MODULE Spec2Model ----
(***************************************************************************)
(* Model of the table-maintenance code of iceframe:                        *)
(*   iceframe/compaction.py  CompactionManager (bin_pack, sort)            *)
(*   iceframe/gc.py          GarbageCollector (expire_snapshots,           *)
(*                           remove_orphan_files)                          *)
(*   iceframe/procedures.py  StoredProcedures.call                         *)
(*   iceframe/core.py        IceFrame.expire_snapshots/remove_orphan_files *)
(*                                                                         *)
(* The catalog and the Table handle are the collaborators the code calls:  *)
(* the catalog holds the table's current metadata pointer and accepts a    *)
(* commit only when the committer's base version is still current; a Table *)
(* handle caches the metadata it was loaded with and is updated only by    *)
(* its own successful commits (the code never calls refresh).              *)
(***************************************************************************)
EXTENDS Integers, Sequences, FiniteSets, TLC

(* ------------------------------ bounds -------------------------------- *)
MaxRows == 2
MaxCalls == 2
MaxAppends == 1

MaxFiles == 2
MaxDay == 2
ScenarioSnaps == 5
ScenarioFiles == 10
MaxLen == 3
MaxValue == 1

AllRows == 1..MaxRows
Procs == {1, 2}

\* filter_expr: None, or an expression, modelled by the set of rows it selects
\* and by whether every column it names is in the table's schema (bound)
NoFilter == [given |-> FALSE, selects |-> {}, bound |-> TRUE]
\* an expression over a column the table does not have
UnboundFilter == [given |-> TRUE, selects |-> {}, bound |-> FALSE]
\* (the expressions "id <= k")
Filters ==
    {NoFilter} \cup
    {[given |-> TRUE, selects |-> 1..k, bound |-> TRUE] : k \in 0..(MaxRows - 1)}
NoResult == [none |-> TRUE]

VARIABLES
    cat,        \* catalog: the table's current snapshot [version, rows, op, filtered]
    table,      \* table[p]: the metadata cached by the Table handle of manager p
    pc,         \* pc[p]: "idle" | "scanned" (between scan.to_arrow and overwrite)
    strategy,   \* strategy[p]: "bin_pack" | "sort", the running/last call of p
    filter_expr,\* filter_expr[p]: argument of the running/last call
    df,         \* df[p]: rows read by the scan of the running/last call
    readSnap,   \* readSnap[p]: snapshot the scan of the running/last call read
    calls,      \* number of compaction calls started
    outcome,    \* outcome[p]: "none" | "running" | "returned" | "committed" | exception name
    appends,    \* number of appends by the concurrent writer
    lastCommit  \* the last commit the catalog applied

cvars == <<cat, table, pc, strategy, filter_expr, df, readSnap, calls,
           outcome, appends, lastCommit>>

\* Garbage collection: the table's snapshot history and its storage location
VARIABLES
    now,        \* the clock, in days
    snaps,      \* ids of the snapshots in the table's history
    snapTime,   \* snapTime[s]: creation time of snapshot s
    manifest,   \* manifest[s]: the files snapshot s references
    current,    \* id of the current snapshot (0: the table has none)
    storage,    \* files present under the table's location
    fileTime,   \* fileTime[f]: last-modified time of file f, kept while no
                \* snapshot references f (the orphan listing reads no other)
    written,    \* number of files ever written
    created,    \* number of snapshots ever committed
    gcLog       \* the maintenance call the last step made, and its effect

gvars == <<now, snaps, snapTime, manifest, current, storage, fileTime, written,
           created, gcLog>>

\* The stored-procedure dispatcher, and the rows of a table in stored order
VARIABLES
    procLog,    \* the StoredProcedures.call the last step made, and its effect
    stored,     \* the table's rows in stored order (a sequence of records)
    sortLog     \* the sort() call the last step made on stored, and its effect

ovars == <<procLog, stored, sortLog>>

\* The chunked reader, the streaming writer and its Kafka loop, the branch
\* manager
VARIABLES
    reader,     \* the generator read_table_chunked returned, and what it yielded
    writer,     \* the StreamingWriter: its buffer, last-flush time and settings
    batches,    \* the batches append_to_table appended for the writer, in order
    accepted,   \* the records passed to write, in order
    wrLog,      \* the writer call the last step made, and how it ended
    clock,      \* time.time(), in seconds since the writer was built
    kafka,      \* stream_from_kafka: its position, its consumer and how it ended
    refs,       \* the table's branch and tag references
    brLog       \* the BranchManager call the last step made, and how it ended

wvars == <<writer, batches, accepted, wrLog, clock, kafka>>

bvars == <<refs, brLog>>

evars == <<reader, wvars, bvars>>

vars == <<cvars, gvars, ovars, evars>>

\* older_than_ms: Optional[int] = None
None == -1

Files == 1..MaxFiles

\* older_than_days: int = 7, retain_last: int = 1 (expire_snapshots);
\* older_than_days: int = 3 (remove_orphan_files)
DefaultOlderThanDays == 7
DefaultRetainLast == 1
DefaultOrphanDays == 3

\* Snapshots a table history holds in the garbage-collection runs, and the
\* day the expiry scenarios are run on
MaxSnaps == MaxFiles
ScenarioDay == DefaultOlderThanDays + 1
SnapIds == 1..(IF MaxSnaps > ScenarioSnaps THEN MaxSnaps ELSE ScenarioSnaps)

NoCall ==
    [op |-> "none", now |-> 0, before |-> {}, current |-> 0, retain_last |-> 0,
     grace |-> 0, after |-> {}, expiredFiles |-> {}, deleted |-> {},
     raised |-> "none"]

\* No StoredProcedures.call made
NoProcCall ==
    [name |-> "none", proc |-> "none", target_file_size_mb |-> 0,
     invoked |-> "none", raised |-> "none"]

\* No sort() call made on stored
NoSort == [sort_order |-> <<>>, before |-> <<>>, after |-> <<>>, outcome |-> "none"]

\* No dispatcher call, and no table whose stored order is followed
NoDispatch ==
    /\ procLog = NoProcCall
    /\ stored = <<>>
    /\ sortLog = NoSort

\* No chunked read started
NoReader ==
    [state |-> "none", raised |-> "none", df |-> <<>>, chunk_size |-> 0,
     max_memory_mb |-> None, start |-> 0, yielded |-> <<>>, current_mb |-> 0]

\* No StreamingWriter built, no Kafka loop running
NoWriter == [buffer |-> <<>>, last_flush |-> 0, batch_size |-> 0, flush_interval |-> 0]
NoWrite == [op |-> "none", raised |-> "none", tried |-> FALSE,
            buffer |-> <<>>, last_flush |-> 0]
NoKafka ==
    [pc |-> "none", consumer |-> "none", exit |-> "none", raised |-> "none",
     left |-> 0]

NoStreaming ==
    /\ writer = NoWriter
    /\ batches = <<>>
    /\ accepted = <<>>
    /\ wrLog = NoWrite
    /\ clock = 0
    /\ kafka = NoKafka

\* No BranchManager call made, on a table with no reference but main
NoRef == [op |-> "none", name |-> "none", snapshot_id |-> 0, raised |-> "none"]

NoBranching ==
    /\ refs = {"main"}
    /\ brLog = NoRef

NoOther ==
    /\ NoDispatch
    /\ reader = NoReader
    /\ NoStreaming
    /\ NoBranching

\* A new table, with no snapshot yet and an empty location, left alone
NoGarbageCollection ==
    /\ now = 0
    /\ snaps = {}
    /\ snapTime = [s \in SnapIds |-> 0]
    /\ manifest = [s \in SnapIds |-> {}]
    /\ current = 0
    /\ storage = {}
    /\ fileTime = [f \in Files |-> 0]
    /\ written = 0
    /\ created = 0
    /\ gcLog = NoCall

(* ----------------------- pyiceberg Table handle ----------------------- *)
\* table.scan() [.filter(filter_expr)] .to_arrow(): the rows of the snapshot
\* cached in the handle, restricted to the rows the filter selects
ScanToArrow(meta, f) ==
    IF f.given THEN meta.rows \cap f.selects ELSE meta.rows

\* if filter_expr: (None and the empty string are falsy)
HasFilter(f) == f.given

\* (variant: the handle is refreshed from the catalog before the overwrite)
OverwriteBase_Refreshed(p) == cat

\* The metadata table.overwrite() builds its transaction on: the handle's
\* cached metadata, the same the scan read (no refresh in between).
OverwriteBase(p) == table[p]

\* The rows table.overwrite(data) leaves in the new snapshot: overwrite is
\* called without overwrite_filter, so every current row is deleted and
\* replaced by data.
OverwriteRows(base, data) == data

\* The catalog's commit check: the base version is still the current one
CommitAccepted(base) == base.version = cat.version

Snapshot(v, rs, op, filtered) ==
    [version |-> v, rows |-> rs, op |-> op, filtered |-> filtered]

NoCommit ==
    [who |-> 0, op |-> "none", filter |-> NoFilter, read |-> cat, prev |-> cat, new |-> cat]

\* (variant: the new snapshot is made current before the commit check fails)
RejectedCommit_Applied(new) == new

\* The catalog's pointer after a commit it rejected: the commit is one atomic
\* swap of the pointer, so a rejected one leaves the current snapshot in place
RejectedCommit(new) == cat

\* self.table.overwrite(data) as called by manager p
TableOverwrite(p, data) ==
    LET base == OverwriteBase(p)
        new  == Snapshot(cat.version + 1, OverwriteRows(base, data),
                         strategy[p], HasFilter(filter_expr[p]))
    IN  /\ pc' = [pc EXCEPT ![p] = "idle"]
        /\ IF CommitAccepted(base)
           THEN /\ cat' = new
                /\ table' = [table EXCEPT ![p] = new]
                /\ outcome' = [outcome EXCEPT ![p] = "committed"]
                /\ lastCommit' = [who |-> p, op |-> strategy[p],
                                  filter |-> filter_expr[p],
                                  read |-> readSnap[p],
                                  prev |-> cat, new |-> new]
           ELSE /\ outcome' = [outcome EXCEPT ![p] = "CommitFailedException"]
                /\ cat' = RejectedCommit(new)
                /\ UNCHANGED <<table, lastCommit>>

(* -------------------------- CompactionManager ------------------------- *)
\* What scan.to_arrow() raises: a read error of the file IO (io_ok false), or
\* the binding error of a filter over a missing column. The filter is bound
\* while the files of the snapshot are planned; on a table without rows the
\* installed pyiceberg decides whether it is bound at all (eager).
ScanError(meta, f, io_ok, eager) ==
    IF ~io_ok THEN "OSError"
    ELSE IF f.given /\ ~f.bound /\ (meta.rows # {} \/ eager) THEN "ValueError"
    ELSE "none"

\* What the step after the read raises: df.sort(sort_order) on a sort key
\* that is not a column of df (keys_ok false); bin_pack has no such step
TransformError(strat, keys_ok) ==
    IF strat = "sort" /\ ~keys_ok THEN "ColumnNotFoundError" ELSE "none"

\* Lines 47-57 of bin_pack / 90-101 of sort: scan, read, the early return and
\* the sort
CompactionScan(p, strat, f, io_ok, eager, keys_ok) ==
    /\ pc[p] = "idle"
    /\ calls < MaxCalls
    /\ LET err  == ScanError(table[p], f, io_ok, eager)
           data == IF err = "none" THEN ScanToArrow(table[p], f) ELSE {}
       IN  /\ calls' = calls + 1
           /\ strategy' = [strategy EXCEPT ![p] = strat]
           /\ filter_expr' = [filter_expr EXCEPT ![p] = f]
           /\ df' = [df EXCEPT ![p] = data]
           /\ readSnap' = [readSnap EXCEPT ![p] = table[p]]
           /\ IF err # "none"
              THEN /\ pc' = pc
                   /\ outcome' = [outcome EXCEPT ![p] = err]
              ELSE IF Cardinality(data) = 0
              THEN /\ pc' = pc
                   /\ outcome' = [outcome EXCEPT ![p] = "returned"]
              ELSE IF TransformError(strat, keys_ok) # "none"
              THEN /\ pc' = pc
                   /\ outcome' = [outcome EXCEPT ![p] = TransformError(strat, keys_ok)]
              ELSE /\ pc' = [pc EXCEPT ![p] = "scanned"]
                   /\ outcome' = [outcome EXCEPT ![p] = "running"]
    /\ UNCHANGED <<cat, table, appends, lastCommit>>

bin_pack_scan(p, f, io_ok, eager) ==
    /\ CompactionScan(p, "bin_pack", f, io_ok, eager, TRUE)
    /\ UNCHANGED <<gvars, ovars, evars>>

bin_pack_overwrite(p) ==
    /\ pc[p] = "scanned"
    /\ strategy[p] = "bin_pack"
    /\ TableOverwrite(p, df[p])
    /\ UNCHANGED <<strategy, filter_expr, df, readSnap, calls, appends, gvars, ovars, evars>>

sort_scan(p, f, io_ok, eager, keys_ok) ==
    /\ CompactionScan(p, "sort", f, io_ok, eager, keys_ok)
    /\ UNCHANGED <<gvars, ovars, evars>>

sort_overwrite(p) ==
    /\ pc[p] = "scanned"
    /\ strategy[p] = "sort"
    /\ TableOverwrite(p, df[p])
    /\ UNCHANGED <<strategy, filter_expr, df, readSnap, calls, appends, gvars, ovars, evars>>

\* The data files table.overwrite(data) writes: the rows are handed over as
\* one Arrow table and written as one file while they fit the table's own
\* write target; target_file_size_mb is not passed on
FilesWritten(rows) == IF rows = {} THEN 0 ELSE 1

\* The data files of a snapshot
DataFiles(meta) ==
    IF meta.op \in {"bin_pack", "sort"} THEN FilesWritten(meta.rows)
    ELSE Cardinality(meta.rows)

\* The commits the last call of p submitted: overwrite is called once, with no
\* retry loop around it
Attempts(p) ==
    IF outcome[p] \in {"committed", "CommitFailedException"} THEN 1 ELSE 0

\* The mapping the last call of p returned (NoResult: it raised or is running)
Result(p) ==
    CASE outcome[p] = "returned" /\ strategy[p] = "bin_pack" ->
             [rewritten_files |-> 0, added_files |-> 0]
      [] outcome[p] = "returned" /\ strategy[p] = "sort" ->
             [rewritten_files |-> 0]
      [] outcome[p] = "committed" ->
             [rewritten_rows |-> Cardinality(df[p]), strategy |-> strategy[p]]
      [] OTHER -> NoResult

\* CompactionManager(table) built on a freshly loaded Table
NewCompactionManager(p) ==
    /\ pc[p] = "idle"
    /\ table[p] # cat
    /\ table' = [table EXCEPT ![p] = cat]
    /\ UNCHANGED <<cat, pc, strategy, filter_expr, df, readSnap, calls,
                   outcome, appends, lastCommit, gvars, ovars, evars>>

\* A concurrent writer appends row r through its own, current handle
append_to_table(r) ==
    /\ appends < MaxAppends
    /\ r \notin cat.rows
    /\ LET new == Snapshot(cat.version + 1, cat.rows \cup {r}, "append", FALSE)
       IN  /\ cat' = new
           /\ lastCommit' = [who |-> 0, op |-> "append", filter |-> NoFilter,
                             read |-> cat, prev |-> cat, new |-> new]
    /\ appends' = appends + 1
    /\ UNCHANGED <<table, pc, strategy, filter_expr, df, readSnap, calls,
                   outcome, gvars, ovars, evars>>

\* Managers built on a table of up to max_rows rows, each row appended on its
\* own and so in a data file of its own
CompactionInitOf(max_rows) ==
    /\ \E n \in 0..max_rows : cat = Snapshot(1, 1..n, "append", FALSE)
    /\ table = [p \in Procs |-> cat]
    /\ pc = [p \in Procs |-> "idle"]
    /\ strategy = [p \in Procs |-> "bin_pack"]
    /\ filter_expr = [p \in Procs |-> NoFilter]
    /\ df = [p \in Procs |-> {}]
    /\ readSnap = [p \in Procs |-> cat]
    /\ calls = 0
    /\ outcome = [p \in Procs |-> "none"]
    /\ appends = 0
    /\ lastCommit = NoCommit

CompactionInit == CompactionInitOf(MaxRows)

Next ==
    \/ \E p \in Procs, f \in Filters : bin_pack_scan(p, f, TRUE, TRUE)
    \/ \E p \in Procs : bin_pack_overwrite(p)
    \/ \E p \in Procs, f \in Filters : sort_scan(p, f, TRUE, TRUE, TRUE)
    \/ \E p \in Procs : sort_overwrite(p)
    \/ \E p \in Procs : NewCompactionManager(p)
    \/ \E r \in AllRows : append_to_table(r)

\* Compaction calls racing with each other and with an appending writer, on a
\* table nobody garbage-collects, with reads that succeed and filters and sort
\* keys over columns the table has
Init == CompactionInit /\ NoGarbageCollection /\ NoOther

Spec == Init /\ [][Next]_vars

(* ------------------------ compaction calls that fail ------------------ *)
\* The same calls with the inputs that make them fail: a read error, a filter
\* over a missing column, a sort key that is not a column
FailNext ==
    \/ \E p \in Procs, f \in {NoFilter, UnboundFilter}, io_ok, eager \in BOOLEAN :
          bin_pack_scan(p, f, io_ok, eager)
    \/ \E p \in Procs : bin_pack_overwrite(p)
    \/ \E p \in Procs, f \in {NoFilter, UnboundFilter}, io_ok, eager, keys_ok \in BOOLEAN :
          sort_scan(p, f, io_ok, eager, keys_ok)
    \/ \E p \in Procs : sort_overwrite(p)
    \/ \E p \in Procs : NewCompactionManager(p)
    \/ \E r \in AllRows : append_to_table(r)

SpecFail == Init /\ [][FailNext]_vars

(* ------------------------- compaction properties ---------------------- *)
\* The exceptions a call can end with before it reaches its commit
PreCommitErrors == {"OSError", "ValueError", "ColumnNotFoundError"}

\* The last call of p read its input and ended; it ended with an exception
\* of its commit
Finished(p) == outcome[p] \in {"returned", "committed", "CommitFailedException"}
Raised(p) ==
    outcome[p] \notin {"none", "running", "returned", "committed"} \cup PreCommitErrors

\* The last calls of p and q read the same snapshot and overlapping rows
Raced(p, q) ==
    /\ p # q
    /\ Finished(p) /\ Finished(q)
    /\ readSnap[p] = readSnap[q]
    /\ df[p] \cap df[q] # {}

\* C1: after two compaction calls that raced on overlapping inputs have both
\* finished, every row of the snapshot they started from is still in the
\* table's current snapshot.
C1_RaceLosesNoRow ==
    \A p, q \in Procs :
        (Raced(p, q) /\ lastCommit.who \in {p, q} /\ lastCommit.prev = readSnap[p])
            => readSnap[p].rows \subseteq cat.rows

\* C2: a compaction commit made with a row filter keeps every row of the
\* replaced snapshot that the filter did not select.
C2_FilterKeepsUnselected ==
    (lastCommit.who \in Procs /\ lastCommit.filter.given)
        => (lastCommit.prev.rows \ lastCommit.filter.selects) \subseteq lastCommit.new.rows

\* C3: a compaction commit is applied only when the catalog's current snapshot
\* is still the one the call's scan read, and a call whose snapshot was
\* superseded in between ends rejected, leaving the table as the other writer
\* committed it.
C3_CommitOnlyOnReadVersion ==
    /\ lastCommit.who \in Procs => lastCommit.read = lastCommit.prev
    /\ \A p \in Procs :
          outcome[p] = "CommitFailedException" => readSnap[p].version < cat.version

\* C3 witness: an append landed between a call's scan and its overwrite, the
\* overwrite was rejected and the appended row is still in the table.
C3_Witness ==
    \E p \in Procs :
        /\ outcome[p] = "CommitFailedException"
        /\ lastCommit.op = "append"
        /\ lastCommit.prev = readSnap[p]
        /\ cat = lastCommit.new
        /\ cat.rows # readSnap[p].rows

\* C4: of two calls that raced on overlapping inputs, when one committed its
\* planned delta the other either retried its commit or reported the group as
\* skipped.
C4_LoserRetriesOrSkips ==
    \A p, q \in Procs :
        (Raced(p, q) /\ outcome[p] = "committed" /\ lastCommit.who = p
                     /\ lastCommit.read = readSnap[q])
            => \/ Attempts(q) > 1
               \/ "skipped_groups" \in DOMAIN Result(q)

\* C9: a bin_pack call without filter that reads the non-empty snapshot a
\* previous unfiltered bin_pack produced commits nothing and reports
\* rewritten_files: 0.
C9_SecondCompactIsNoop ==
    \A p \in Procs :
        ( /\ Finished(p)
          /\ strategy[p] = "bin_pack" /\ ~filter_expr[p].given
          /\ readSnap[p].op = "bin_pack" /\ ~readSnap[p].filtered
          /\ readSnap[p].rows # {}
          /\ appends = 0 )
        => /\ outcome[p] # "committed"
           /\ "rewritten_files" \in DOMAIN Result(p)
           /\ Result(p).rewritten_files = 0

\* C10: a compaction call that ends on a version conflict has made a bounded
\* number of commit attempts and ends with MaintenanceAborted.
C10_ConflictEndsAborted ==
    \A p \in Procs :
        Raised(p) => (Attempts(p) <= MaxCalls /\ outcome[p] = "MaintenanceAborted")

(* ------------------------------------------------------------------------ *)
(* Garbage collection                                                       *)
(* ------------------------------------------------------------------------ *)
\* A table no compaction runs on
NoCompaction ==
    /\ cat = Snapshot(1, {}, "append", FALSE)
    /\ table = [p \in Procs |-> cat]
    /\ pc = [p \in Procs |-> "idle"]
    /\ strategy = [p \in Procs |-> "bin_pack"]
    /\ filter_expr = [p \in Procs |-> NoFilter]
    /\ df = [p \in Procs |-> {}]
    /\ readSnap = [p \in Procs |-> cat]
    /\ calls = 0
    /\ outcome = [p \in Procs |-> "none"]
    /\ appends = 0
    /\ lastCommit = NoCommit

\* (variant: only the current snapshot's manifest counts as live)
liveFiles_CurrentOnly(S) == UNION {manifest[s] : s \in S \cap {current}}

\* allLiveFiles(table, retainedSnapshots): the union of the manifest entries
\* of the retained snapshots
liveFiles(S) == UNION {manifest[s] : s \in S}

\* The k most recent snapshots of S (snapshot ids are monotonic)
MostRecent(S, k) == {s \in S : Cardinality({t \in S : t > s}) < k}

\* The retained set of an expiry: the most recent retain_last snapshots, the
\* snapshots not older than the cutoff, and the current snapshot
RetainedSet(S, cur, cutoff, retain_last) ==
    MostRecent(S, retain_last) \cup {s \in S : snapTime[s] >= cutoff} \cup (S \cap {cur})

\* The cutoff timestamp of a maximum age in days
CutoffOfDays(days) == now - days

\* The files an orphan removal deletes: present in storage, referenced by no
\* snapshot of the table, last modified before the cutoff
OrphanFiles(cutoff) ==
    {f \in storage \ liveFiles(snaps) : fileTime[f] < cutoff}

\* Table.expire_snapshots(older_than_ms, retain_last, delete_func)
TableExpireSnapshots(older_than_ms, retain_last, log) ==
    LET cutoff   == IF older_than_ms = None
                    THEN CutoffOfDays(DefaultOlderThanDays) ELSE older_than_ms
        retained == RetainedSet(snaps, current, cutoff, retain_last)
        dead     == (liveFiles(snaps \ retained) \ liveFiles(retained)) \cap storage
    IN  /\ snaps' = retained
        /\ manifest' = [s \in SnapIds |-> IF s \in retained THEN manifest[s] ELSE {}]
        /\ storage' = storage \ dead
        /\ gcLog' = [log EXCEPT !.after = retained, !.deleted = dead,
                                !.expiredFiles = liveFiles(snaps \ retained)]
        /\ UNCHANGED <<now, snapTime, current, fileTime, written, created>>

\* Table.remove_orphan_files(older_than_ms, delete_func)
TableRemoveOrphanFiles(older_than_ms, log) ==
    LET cutoff == IF older_than_ms = None
                  THEN CutoffOfDays(DefaultOrphanDays) ELSE older_than_ms
        dead   == OrphanFiles(cutoff)
    IN  /\ storage' = storage \ dead
        /\ gcLog' = [log EXCEPT !.deleted = dead]
        /\ UNCHANGED <<now, snaps, snapTime, manifest, current, fileTime, written, created>>

\* No maintenance call is awaiting its return
Idle == gcLog.op = "none"

\* The record of a maintenance call as the caller asked for it
CallLog(op, retain_last, grace) ==
    [op |-> op, now |-> now, before |-> snaps, current |-> current,
     retain_last |-> retain_last, grace |-> grace, after |-> snaps,
     expiredFiles |-> {}, deleted |-> {}, raised |-> "none"]

\* The age a caller of the GarbageCollector asks for with older_than_ms
GraceOf(older_than_ms, default_days) ==
    IF older_than_ms = None THEN default_days ELSE now - older_than_ms

(* --------------------------- GarbageCollector ------------------------- *)
\* _parallel_delete(max_workers): builds an executor and a delete_files
\* function whose body is a placeholder, and returns None, so the table is
\* given delete_func=None and deletes with its own default
parallel_delete(max_workers) == None

\* What expire_snapshots and remove_orphan_files return: they end without a
\* return statement
GarbageCollectorReturn(log) == None

\* (variant: retain_last is not handed on, the default applies)
GcExpireArgs_DropRetain(older_than_ms, retain_last) ==
    <<older_than_ms, DefaultRetainLast>>

\* The keyword arguments expire_snapshots hands to the table
GcExpireArgs(older_than_ms, retain_last) == <<older_than_ms, retain_last>>

\* The older_than_ms remove_orphan_files hands to the table
GcOrphanArgs(older_than_ms) == older_than_ms

GarbageCollector_expire_snapshots(older_than_ms, retain_last) ==
    LET args == GcExpireArgs(older_than_ms, retain_last)
    IN  TableExpireSnapshots(args[1], args[2],
            CallLog("expire_snapshots", retain_last,
                    GraceOf(older_than_ms, DefaultOlderThanDays)))

\* has_api: hasattr(self.table, "remove_orphan_files"), which depends on the
\* installed pyiceberg
GarbageCollector_remove_orphan_files(older_than_ms, has_api) ==
    LET log == CallLog("remove_orphan_files", 0, GraceOf(older_than_ms, DefaultOrphanDays))
    IN  IF has_api
        THEN TableRemoveOrphanFiles(GcOrphanArgs(older_than_ms), log)
        ELSE /\ gcLog' = [log EXCEPT !.raised = "NotImplementedError"]
             /\ UNCHANGED <<now, snaps, snapTime, manifest, current, storage, fileTime,
                            written, created>>

gc_expire_snapshots(older_than_ms, retain_last) ==
    /\ Idle
    /\ GarbageCollector_expire_snapshots(older_than_ms, retain_last)
    /\ UNCHANGED <<cvars, ovars, evars>>

gc_remove_orphan_files(older_than_ms, has_api) ==
    /\ Idle
    /\ GarbageCollector_remove_orphan_files(older_than_ms, has_api)
    /\ UNCHANGED <<cvars, ovars, evars>>

(* ------------------------------ IceFrame ------------------------------ *)
\* (variant: the two positional arguments are handed on in the wrong order)
IceFrameExpireArgs_Swapped(older_than_days, retain_last) ==
    <<retain_last, older_than_days>>

\* The positional arguments IceFrame.expire_snapshots hands to
\* TableMaintenance.expire_snapshots after the table name
IceFrameExpireArgs(older_than_days, retain_last) == <<older_than_days, retain_last>>

\* (variant: the caller's age is not handed on, every orphan older than now
\* is removed)
IceFrameOrphanArgs_Dropped(older_than_days) == 0

\* The older_than_days IceFrame.remove_orphan_files hands on
IceFrameOrphanArgs(older_than_days) == older_than_days

iceframe_expire_snapshots(older_than_days, retain_last) ==
    /\ Idle
    /\ LET args == IceFrameExpireArgs(older_than_days, retain_last)
       IN  TableExpireSnapshots(CutoffOfDays(args[1]), args[2],
               CallLog("expire_snapshots", retain_last, older_than_days))
    /\ UNCHANGED <<cvars, ovars, evars>>

iceframe_remove_orphan_files(older_than_days) ==
    /\ Idle
    /\ TableRemoveOrphanFiles(CutoffOfDays(IceFrameOrphanArgs(older_than_days)),
           CallLog("remove_orphan_files", 0, older_than_days))
    /\ UNCHANGED <<cvars, ovars, evars>>

(* --------------------------- StoredProcedures ------------------------- *)
\* The procedure names callers pass
ProcNames ==
    {"compact", "sort_compact", "expire_snapshots", "remove_orphan_files",
     "rewrite_data_files", "REWRITE_DATA_FILES", "fast_forward", "vacuum"}

\* procedure_name.lower(), on the names callers pass
Lower(procedure_name) ==
    IF procedure_name = "REWRITE_DATA_FILES" THEN "rewrite_data_files"
    ELSE procedure_name

\* The methods class BranchManager defines
BranchManagerMethods ==
    {"create_branch", "tag_snapshot", "list_branches", "list_tags"}

\* The keyword parameters of the method each branch hands **kwargs to
BinPackParams == {"target_file_size_mb", "filter_expr"}
GcExpireParams == {"older_than_ms", "retain_last", "max_workers"}
GcOrphanParams == {"older_than_ms", "max_workers"}

\* target_file_size_mb: int = 128
DefaultTargetFileSizeMb == 128

\* The value a method sees for a parameter: the keyword argument, or the
\* parameter's default when the caller gave none
Kwarg(kwargs, key, default) ==
    IF key \in DOMAIN kwargs THEN kwargs[key] ELSE default

\* method(**kwargs) raises TypeError on a keyword the method does not have,
\* before its body runs
UnexpectedKeyword(kwargs, params) == ~(DOMAIN kwargs \subseteq params)

\* call(procedure_name, **kwargs) of the StoredProcedures built on the Table
\* handle of manager p. has_api, io_ok, eager: see remove_orphan_files and
\* ScanError.
procedures_call(p, procedure_name, kwargs, has_api, io_ok, eager) ==
    LET proc == Lower(procedure_name)
        log  == [name |-> procedure_name, proc |-> proc,
                 target_file_size_mb |->
                     Kwarg(kwargs, "target_file_size_mb", DefaultTargetFileSizeMb),
                 invoked |-> "none", raised |-> "none"]
        params == IF proc = "rewrite_data_files" THEN BinPackParams
                  ELSE IF proc = "expire_snapshots" THEN GcExpireParams
                  ELSE GcOrphanParams
    IN  IF proc \in {"rewrite_data_files", "expire_snapshots", "remove_orphan_files"}
           /\ UnexpectedKeyword(kwargs, params)
        THEN /\ procLog' = [log EXCEPT !.raised = "TypeError"]
             /\ UNCHANGED <<cvars, gvars, stored, sortLog, evars>>
        ELSE IF proc = "rewrite_data_files"
        THEN /\ CompactionScan(p, "bin_pack", Kwarg(kwargs, "filter_expr", NoFilter),
                               io_ok, eager, TRUE)
             /\ procLog' = [log EXCEPT !.invoked = "bin_pack"]
             /\ UNCHANGED <<gvars, stored, sortLog, evars>>
        ELSE IF proc = "expire_snapshots"
        THEN /\ Idle
             /\ GarbageCollector_expire_snapshots(
                    Kwarg(kwargs, "older_than_ms", None),
                    Kwarg(kwargs, "retain_last", DefaultRetainLast))
             /\ procLog' = [log EXCEPT !.invoked = "expire_snapshots"]
             /\ UNCHANGED <<cvars, stored, sortLog, evars>>
        ELSE IF proc = "remove_orphan_files"
        THEN /\ Idle
             /\ GarbageCollector_remove_orphan_files(
                    Kwarg(kwargs, "older_than_ms", None), has_api)
             /\ procLog' = [log EXCEPT !.invoked = "remove_orphan_files"]
             /\ UNCHANGED <<cvars, stored, sortLog, evars>>
        ELSE IF proc = "fast_forward"
        THEN \* bm.fast_forward(...): an attribute BranchManager must have
             /\ procLog' = IF "fast_forward" \in BranchManagerMethods
                           THEN [log EXCEPT !.invoked = "fast_forward"]
                           ELSE [log EXCEPT !.raised = "AttributeError"]
             /\ UNCHANGED <<cvars, gvars, stored, sortLog, evars>>
        ELSE /\ procLog' = [log EXCEPT !.raised = "ValueError"]
             /\ UNCHANGED <<cvars, gvars, stored, sortLog, evars>>

\* The maintenance call returns to its caller; the times of the snapshots and
\* files it removed are gone with them
maintenance_returns ==
    /\ ~Idle
    /\ gcLog' = NoCall
    /\ snapTime' = [s \in SnapIds |-> IF s \in snaps THEN snapTime[s] ELSE 0]
    /\ fileTime' = [f \in Files |-> IF f \in storage THEN fileTime[f] ELSE 0]
    /\ procLog' = NoProcCall
    /\ UNCHANGED <<now, snaps, manifest, current, storage, written, created, cvars,
                   stored, sortLog, evars>>

(* ------------------------ clock and other writers --------------------- *)
Tick ==
    /\ now < MaxDay
    /\ now' = now + 1
    /\ gcLog' = NoCall
    /\ procLog' = NoProcCall
    /\ UNCHANGED <<snaps, snapTime, manifest, current, storage, fileTime, written,
                   created, cvars, stored, sortLog, evars>>

\* A writer puts a new data file under the table's location
write_file ==
    /\ written < MaxFiles
    /\ written' = written + 1
    /\ storage' = storage \cup {written + 1}
    /\ fileTime' = [fileTime EXCEPT ![written + 1] = now]
    /\ gcLog' = NoCall
    /\ procLog' = NoProcCall
    /\ UNCHANGED <<now, snaps, snapTime, manifest, current, created,
                   cvars, stored, sortLog, evars>>

\* A writer commits a snapshot that keeps the files keep of the current
\* snapshot and adds the files add it wrote
commit_snapshot(keep, add) ==
    /\ created < MaxSnaps
    /\ add \subseteq storage \ liveFiles(snaps)
    /\ keep \subseteq liveFiles(snaps \cap {current})
    /\ keep \cup add # liveFiles(snaps \cap {current})
    /\ created' = created + 1
    /\ snaps' = snaps \cup {created + 1}
    /\ snapTime' = [snapTime EXCEPT ![created + 1] = now]
    /\ manifest' = [manifest EXCEPT ![created + 1] = keep \cup add]
    /\ current' = created + 1
    /\ fileTime' = [f \in Files |-> IF f \in add THEN 0 ELSE fileTime[f]]
    /\ gcLog' = NoCall
    /\ procLog' = NoProcCall
    /\ UNCHANGED <<now, storage, written, cvars, stored, sortLog, evars>>

\* What callers pass: an age in days or nothing (the default), a timestamp
\* or None, a number of snapshots to retain
ExpireDayArgs == {0, DefaultOlderThanDays}
OrphanDayArgs == {0, 1, DefaultOrphanDays}
TimestampArgs == {None} \cup {now - d : d \in {0, 1}}
RetainArgs == 0..2
GcRetainArgs == {DefaultRetainLast, 2}

GcInit ==
    /\ now = 0
    /\ snaps = {}
    /\ snapTime = [s \in SnapIds |-> 0]
    /\ manifest = [s \in SnapIds |-> {}]
    /\ current = 0
    /\ storage = {}
    /\ fileTime = [f \in Files |-> 0]
    /\ written = 0
    /\ created = 0
    /\ gcLog = NoCall
    /\ NoCompaction
    /\ NoOther

GcNext ==
    \/ Tick
    \/ write_file
    \/ \E keep \in SUBSET Files, add \in SUBSET Files : commit_snapshot(keep, add)
    \/ \E d \in ExpireDayArgs, r \in GcRetainArgs : iceframe_expire_snapshots(d, r)
    \/ \E t \in TimestampArgs, r \in GcRetainArgs : gc_expire_snapshots(t, r)
    \/ \E d \in OrphanDayArgs : iceframe_remove_orphan_files(d)
    \/ \E t \in TimestampArgs, h \in BOOLEAN : gc_remove_orphan_files(t, h)
    \/ \E n \in {"expire_snapshots", "remove_orphan_files"},
          kwargs \in {<<>>, [older_than_ms |-> now]}, h \in BOOLEAN :
              procedures_call(1, n, kwargs, h, TRUE, TRUE)
    \/ maintenance_returns

SpecGC == GcInit /\ [][GcNext]_vars

(* ------------------------- expiry on a drawn history ------------------- *)
\* Creation times the drawn histories use: older than the default maximum
\* age, exactly that old, a day old, and new
ScenarioTimes == {0, ScenarioDay - DefaultOlderThanDays, ScenarioDay - 1, ScenarioDay}

\* Any table history of up to ScenarioSnaps snapshots, with any of them the
\* current one (the latest, or an older one the table was rolled back to)
ExpireInit ==
    /\ now = ScenarioDay
    /\ \E n \in 1..ScenarioSnaps :
          /\ snaps = 1..n
          /\ created = n
          /\ current \in 1..n
    /\ snapTime \in [SnapIds -> ScenarioTimes]
    /\ \A s, t \in SnapIds : s < t => snapTime[s] <= snapTime[t]
    /\ \A s \in SnapIds : s > created => snapTime[s] = ScenarioDay
    /\ manifest = [s \in SnapIds |-> {}]
    /\ storage = {}
    /\ fileTime = [f \in Files |-> 0]
    /\ written = 0
    /\ gcLog = NoCall
    /\ NoCompaction
    /\ NoOther

ExpireNext ==
    \/ \E d \in ExpireDayArgs, r \in RetainArgs : iceframe_expire_snapshots(d, r)
    \/ \E t \in {None, now, now - DefaultOlderThanDays}, r \in RetainArgs :
          gc_expire_snapshots(t, r)
    \/ \E kwargs \in {<<>>, [older_than_ms |-> now]} :
          procedures_call(1, "expire_snapshots", kwargs, TRUE, TRUE, TRUE)
    \/ maintenance_returns

SpecExpire == ExpireInit /\ [][ExpireNext]_vars

(* ------------------------ the dispatcher's callers --------------------- *)
\* Keyword arguments callers pass: none, a target size (valid or not), a
\* number of snapshots to retain (not valid)
KwargsArgs ==
    {<<>>,
     [target_file_size_mb |-> 64], [target_file_size_mb |-> -1],
     [retain_last |-> -1]}

\* One StoredProcedures object, on the Table handle of manager 1
CallNext ==
    \/ \E n \in ProcNames, kwargs \in KwargsArgs, has_api \in BOOLEAN :
          procedures_call(1, n, kwargs, has_api, TRUE, TRUE)
    \/ bin_pack_overwrite(1)
    \/ maintenance_returns

\* The dispatcher on tables of up to ScenarioFiles data files
CallInit == CompactionInitOf(ScenarioFiles) /\ NoGarbageCollection /\ NoOther

SpecCall == CallInit /\ [][CallNext]_vars

(* ---------------------- garbage-collection properties ------------------ *)
Min(a, b) == IF a < b THEN a ELSE b

\* The files of storage no snapshot of the table references
Unreferenced == storage \ liveFiles(snaps)

\* C5: every file a remove_orphan_files call deleted was, at the call, at
\* least as old as the grace period the call was made with; a file younger
\* than it is never deleted.
C5_OrphanGraceRespected ==
    gcLog.op = "remove_orphan_files"
        => \A f \in gcLog.deleted : gcLog.now - fileTime[f] >= gcLog.grace

\* C5 witness: a remove_orphan_files call deleted an old unreferenced file and
\* left in place an unreferenced file younger than the grace period.
C5_Witness ==
    /\ gcLog.op = "remove_orphan_files"
    /\ gcLog.raised = "none"
    /\ gcLog.deleted # {}
    /\ \E f \in Unreferenced : now - fileTime[f] < gcLog.grace

\* C6: the files of every snapshot in the history are in storage, and a
\* maintenance call deletes no file that a snapshot it retains references.
C6_LiveFilesKept ==
    /\ \A s \in snaps : manifest[s] \subseteq storage
    /\ gcLog.op # "none" =>
           \A s \in gcLog.after : manifest[s] \cap gcLog.deleted = {}

\* C6 witness: an expiry removed a non-current snapshot and deleted one of its
\* files, while another of its files, referenced by a retained snapshot,
\* stayed in storage.
C6_Witness ==
    /\ gcLog.op = "expire_snapshots"
    /\ gcLog.current \in gcLog.after
    /\ gcLog.deleted # {}
    /\ gcLog.expiredFiles \cap liveFiles(gcLog.after) # {}
    /\ gcLog.expiredFiles \cap liveFiles(gcLog.after) \subseteq storage

\* C7: an expiry keeps at least min(retain_last, snapshots before the call)
\* snapshots, and the current snapshot is among them and stays current.
C7_ExpireKeepsMinimumAndCurrent ==
    gcLog.op = "expire_snapshots"
        => /\ snaps = gcLog.after
           /\ gcLog.after \subseteq gcLog.before
           /\ Cardinality(gcLog.after) >=
                  Min(gcLog.retain_last, Cardinality(gcLog.before))
           /\ gcLog.current \in gcLog.before => gcLog.current \in gcLog.after
           /\ current = gcLog.current

\* C7 witness: an expiry removed snapshots while the current snapshot was older
\* than the maximum age and not among the retain_last most recent ones.
C7_Witness ==
    /\ gcLog.op = "expire_snapshots"
    /\ gcLog.after # gcLog.before
    /\ gcLog.retain_last >= 1
    /\ gcLog.current \notin MostRecent(gcLog.before, gcLog.retain_last)
    /\ gcLog.now - snapTime[gcLog.current] > gcLog.grace
    /\ gcLog.current \in gcLog.after

\* The scenario of C8: an expiry with a maximum age of 7 days and retain_last
\* 1 on a table with 5 snapshots, 3 of them older than 7 days, the current
\* snapshot one of these 3
OlderThan(S, at, days) == {s \in S : at - snapTime[s] > days}

ExpireScenario ==
    /\ gcLog.op = "expire_snapshots"
    /\ gcLog.grace = 7
    /\ gcLog.retain_last = 1
    /\ Cardinality(gcLog.before) = 5
    /\ Cardinality(OlderThan(gcLog.before, gcLog.now, 7)) = 3
    /\ gcLog.current \in OlderThan(gcLog.before, gcLog.now, 7)

\* C8 as stated: in the scenario the retained set is the current snapshot only.
C8_OnlyCurrentRetained ==
    ExpireScenario => gcLog.after = {gcLog.current}

\* C8 as amended: in the scenario the retained set is the current snapshot and
\* the 2 snapshots not older than 7 days; the other 2 old snapshots expire.
C8_CurrentAndYoungRetained ==
    ExpireScenario =>
        /\ gcLog.after = {gcLog.current} \cup
                           (gcLog.before \ OlderThan(gcLog.before, gcLog.now, 7))
        /\ Cardinality(gcLog.after) = 3
        /\ gcLog.before \ gcLog.after = OlderThan(gcLog.before, gcLog.now, 7) \ {gcLog.current}
        /\ Cardinality(gcLog.before \ gcLog.after) = 2

\* C8 witness: the scenario happened.
C8_Witness == ExpireScenario /\ snaps = gcLog.after

(* ---------------------------- failing calls --------------------------- *)
\* The exceptions a compaction call can end with
Failures == PreCommitErrors \cup {"CommitFailedException"}

\* This step ends a call of p
EndsCall(p) == calls' # calls \/ (pc[p] = "scanned" /\ pc'[p] = "idle")

Registry == {"compact", "sort_compact", "expire_snapshots", "remove_orphan_files"}

\* C12: a dispatcher call is refused as an unknown procedure exactly when its
\* name is outside the registry, and then it invokes no operation.
C12_ExactlyRegistryAccepted ==
    procLog.name # "none" =>
        /\ (procLog.name \in Registry) <=> (procLog.raised # "ValueError")
        /\ procLog.name \notin Registry => procLog.invoked = "none"

\* C13: a dispatcher call with a target file size that is not positive fails
\* before it invokes any operation on the table.
C13_InvalidParametersFailFast ==
    (procLog.name # "none" /\ procLog.target_file_size_mb <= 0) =>
        /\ procLog.raised # "none"
        /\ procLog.invoked = "none"

(* --------------------------- refresh properties ----------------------- *)
\* C14: the scan a bin_pack or sort call starts with reads the snapshot that
\* is current in the catalog when the call starts.
C14_OperationReadsCurrent ==
    [][\A p \in Procs, f \in Filters :
          (bin_pack_scan(p, f, TRUE, TRUE) \/ sort_scan(p, f, TRUE, TRUE, TRUE))
              => readSnap'[p] = cat]_vars

(* --------------------------- deletion report -------------------------- *)
\* C15: a garbage-collection call that ended without an exception deleted
\* through the parallel delete function and returned a report in which every
\* file of its deletion batch appears exactly once, as succeeded or as failed.
C15_DeleteReportComplete ==
    (gcLog.op # "none" /\ gcLog.raised = "none") =>
        LET report == GarbageCollectorReturn(gcLog)
        IN  /\ \A max_workers \in 1..4 : parallel_delete(max_workers) # None
            /\ report # None
            /\ report.succeeded \cup report.failed = gcLog.deleted
            /\ report.succeeded \cap report.failed = {}

(* ---------------------------- planning errors ------------------------- *)
\* C16: a bin_pack or sort call whose filter names a missing column, and a
\* sort call with a sort key that is not a column, ends with the error of that
\* column and commits nothing, whatever the table holds.
C16_MissingColumnFails ==
    [][\A p \in Procs, eager, keys_ok \in BOOLEAN :
          ( \/ bin_pack_scan(p, UnboundFilter, TRUE, eager)
            \/ sort_scan(p, UnboundFilter, TRUE, eager, keys_ok)
            \/ sort_scan(p, NoFilter, TRUE, eager, FALSE) )
              => /\ outcome'[p] \in {"ValueError", "ColumnNotFoundError"}
                 /\ cat' = cat]_vars

(* ---------------------------- bin-pack scenario ----------------------- *)
\* The scenario of C17: a bin-pack compaction with a target size of 64MB,
\* called through the dispatcher, committed on a table of 10 data files
BinPackScenario ==
    /\ procLog.proc = "rewrite_data_files"
    /\ procLog.target_file_size_mb = 64
    /\ outcome[1] = "committed"
    /\ lastCommit.who = 1
    /\ DataFiles(lastCommit.prev) = 10

\* C17: in the scenario the call reports rewritten_files: 10 and the table is
\* left with 2 data files.
C17_TenFilesIntoTwo ==
    BinPackScenario =>
        /\ "rewritten_files" \in DOMAIN Result(1)
        /\ Result(1).rewritten_files = 10
        /\ DataFiles(cat) = 2

(* ------------------------------------------------------------------------ *)
(* sort, with the order of the rows followed                                *)
(* ------------------------------------------------------------------------ *)
\* The table's schema, its rows, and the sort_order arguments callers pass
\* ("z" is not a column)
Columns == {"a", "b"}
Values == 0..MaxValue
Rows == [a : Values, b : Values]
SortOrders == {<<"a">>, <<"b">>, <<"a", "b">>, <<"b", "a">>, <<"z">>, <<"a", "z">>}

\* (variant: the last sort key is the most significant)
RECURSIVE LexLess_LastKeyFirst(_, _, _)
LexLess_LastKeyFirst(r1, r2, order) ==
    IF order = <<>> THEN FALSE
    ELSE LET k    == order[Len(order)]
             rest == SubSeq(order, 1, Len(order) - 1)
         IN  r1[k] < r2[k] \/ (r1[k] = r2[k] /\ LexLess_LastKeyFirst(r1, r2, rest))

\* df.sort(sort_order) compares rows by the columns of sort_order in turn,
\* ascending: r1 comes before r2
RECURSIVE LexLess(_, _, _)
LexLess(r1, r2, order) ==
    IF order = <<>> THEN FALSE
    ELSE LET k == Head(order)
         IN  r1[k] < r2[k] \/ (r1[k] = r2[k] /\ LexLess(r1, r2, Tail(order)))

InsertAt(t, i, r) == SubSeq(t, 1, i) \o <<r>> \o SubSeq(t, i + 1, Len(t))

\* The places of row r in the sorted rows t: after every row that comes before
\* it and before every row it comes before; among rows with equal keys any
\* place (sort does not maintain their order)
Insertions(r, t, order) ==
    {InsertAt(t, i, r) :
        i \in {i \in 0..Len(t) :
                  /\ \A j \in 1..i : ~LexLess(r, t[j], order)
                  /\ \A j \in (i + 1)..Len(t) : ~LexLess(t[j], r, order)}}

\* The results df.sort(sort_order) can give
RECURSIVE SortBy(_, _)
SortBy(df_rows, order) ==
    IF df_rows = <<>> THEN {<<>>}
    ELSE UNION {Insertions(Head(df_rows), t, order) : t \in SortBy(Tail(df_rows), order)}

\* df.sort raises ColumnNotFoundError on a key that is not a column
MissingKey(order) == \E i \in 1..Len(order) : order[i] \notin Columns

\* CompactionManager.sort(sort_order) without filter, on a table no other
\* writer touches: read, early return, sort, overwrite
sort_rows(sort_order) ==
    LET log == [sort_order |-> sort_order, before |-> stored, after |-> stored,
                outcome |-> "returned"]
    IN  /\ IF Len(stored) = 0
           THEN /\ sortLog' = log
                /\ stored' = stored
           ELSE IF MissingKey(sort_order)
           THEN /\ sortLog' = [log EXCEPT !.outcome = "ColumnNotFoundError"]
                /\ stored' = stored
           ELSE \E sorted_df \in SortBy(stored, sort_order) :
                    /\ stored' = sorted_df
                    /\ sortLog' = [log EXCEPT !.after = sorted_df,
                                              !.outcome = "committed"]
        /\ UNCHANGED <<cvars, gvars, procLog, evars>>

\* A writer appends row r to the table
append_row(r) ==
    /\ Len(stored) < MaxLen
    /\ stored' = Append(stored, r)
    /\ sortLog' = NoSort
    /\ UNCHANGED <<cvars, gvars, procLog, evars>>

SortInit == NoCompaction /\ NoGarbageCollection /\ NoOther

SortNext ==
    \/ \E sort_order \in SortOrders : sort_rows(sort_order)
    \/ \E r \in Rows : append_row(r)

SpecSort == SortInit /\ [][SortNext]_vars

(* ------------------------------ sort properties ------------------------ *)
Count(s, r) == Cardinality({i \in 1..Len(s) : s[i] = r})

\* Rows x, y are in the order of the key sequence: equal on every key, or
\* smaller on the first key they differ on
InKeyOrder(x, y, order) ==
    \/ \A k \in 1..Len(order) : x[order[k]] = y[order[k]]
    \/ \E k \in 1..Len(order) :
          /\ x[order[k]] < y[order[k]]
          /\ \A j \in 1..(k - 1) : x[order[j]] = y[order[j]]

\* C18: after a committed sort the table holds the same multiset of rows as
\* before, in the order of the sort-key sequence, first key most significant.
C18_SortKeepsRowsAndOrders ==
    sortLog.outcome = "committed" =>
        /\ stored = sortLog.after
        /\ \A r \in Rows : Count(stored, r) = Count(sortLog.before, r)
        /\ \A i \in 1..(Len(stored) - 1) :
              InKeyOrder(stored[i], stored[i + 1], sortLog.sort_order)

\* C18 witness: a sort by two keys committed and moved rows of a table that
\* holds rows equal on the first key and different on the second.
C18_Witness ==
    /\ sortLog.outcome = "committed"
    /\ Len(sortLog.sort_order) = 2
    /\ sortLog.after # sortLog.before
    /\ \E i, j \in 1..Len(stored) :
          /\ stored[i][sortLog.sort_order[1]] = stored[j][sortLog.sort_order[1]]
          /\ stored[i][sortLog.sort_order[2]] # stored[j][sortLog.sort_order[2]]

(* ---------------------------- returned mappings ----------------------- *)
\* C19: a bin_pack or sort call whose scan selected nothing returned normally
\* with a mapping that reports rewritten_rows: 0, and committed nothing.
C19_EmptySelectionReportsZeroRows ==
    \A p \in Procs :
        (outcome[p] = "returned" /\ df[p] = {}) =>
            /\ pc[p] = "idle"
            /\ lastCommit.who = p => lastCommit.new.version <= readSnap[p].version
            /\ "rewritten_rows" \in DOMAIN Result(p)
            /\ Result(p).rewritten_rows = 0

\* The keys a Stats mapping has at least, by operation
CompactionStatsKeys == {"rewritten_files", "added_files", "removed_files", "rewritten_rows"}
GcStatsKeys == {"expired_snapshots", "deleted_files", "failed_deletes"}

\* C20: every compaction call that ended without an exception returned a
\* mapping with the compaction Stats keys, and every garbage-collection call
\* that ended without an exception a mapping with the garbage-collection ones.
C20_ReturnsStatsMapping ==
    /\ \A p \in Procs :
          outcome[p] \in {"returned", "committed"}
              => CompactionStatsKeys \subseteq DOMAIN Result(p)
    /\ (gcLog.op # "none" /\ gcLog.raised = "none")
          => /\ GarbageCollectorReturn(gcLog) # None
             /\ GcStatsKeys \subseteq DOMAIN GarbageCollectorReturn(gcLog)


(* ----------------------------- chunked read --------------------------- *)
\* Bounds of the chunked reads explored
MaxReadRows == 4
MaxChunk == 2
MaxMb == 2

ChunkSizes == 0..MaxChunk
MemoryLimits == {None} \cup (0..(MaxMb - 1))
MemoryUsages == 0..MaxMb

\* ice_frame.read_table(table_name): the rows of the table's current
\* snapshot, in table order
RECURSIVE read_table(_)
read_table(rs) ==
    IF rs = {} THEN <<>>
    ELSE LET first == CHOOSE r \in rs : \A q \in rs : r <= q
         IN  <<first>> \o read_table(rs \ {first})

\* df.slice(offset, length)
slice(d, offset, length) == SubSeq(d, offset + 1, offset + length)

\* get_memory_usage_mb(): the resident size of the process, 0.0 when psutil
\* is not installed
get_memory_usage_mb(psutil_available, rss_mb) ==
    IF ~psutil_available THEN 0 ELSE rss_mb

\* check_memory_limit() raises MemoryError: `if self.max_memory_mb:` lets a
\* limit of None and a limit of 0 through without a look at the usage
check_memory_limit(max_memory_mb, current_mb) ==
    /\ max_memory_mb # None
    /\ max_memory_mb # 0
    /\ current_mb > max_memory_mb

\* (variant: every chunk runs to the end of the table)
ChunkEnd_Rest(start, chunk_size, total_rows) == total_rows

\* end = min(start + chunk_size, total_rows)
ChunkEnd(start, chunk_size, total_rows) ==
    IF start + chunk_size < total_rows THEN start + chunk_size ELSE total_rows

\* IceFrame.read_table_chunked builds a MemoryManager with the limit and
\* returns its generator: no line of the generator's body has run yet
iceframe_read_table_chunked(chunk_size, max_memory_mb) ==
    /\ reader.state \in {"none", "exhausted", "raised"}
    /\ reader' = [NoReader EXCEPT !.state = "created",
                                  !.chunk_size = chunk_size,
                                  !.max_memory_mb = max_memory_mb]
    /\ UNCHANGED <<cvars, gvars, ovars, wvars, bvars>>

\* next() on the generator: the first one reads the whole table, each one
\* runs the loop to its next yield, to the guard's error or to the end.
\* current_mb is what get_memory_usage_mb reports at the guard of this chunk.
reader_next(psutil_available, rss_mb) ==
    /\ reader.state \in {"created", "suspended"}
    /\ LET first == reader.state = "created"
           d == IF first THEN read_table(cat.rows) ELSE reader.df
           total_rows == Len(d)
           chunk_size == reader.chunk_size
           start == IF first THEN 0 ELSE reader.start + chunk_size
           end == ChunkEnd(start, chunk_size, total_rows)
           chunk == slice(d, start, end - start)
           current_mb == get_memory_usage_mb(psutil_available, rss_mb)
       IN  IF chunk_size = 0
           THEN reader' = [reader EXCEPT !.state = "raised",
                                         !.raised = "ValueError", !.df = d]
           ELSE IF start >= total_rows
           THEN reader' = [reader EXCEPT !.state = "exhausted", !.df = d,
                                         !.start = start]
           ELSE IF check_memory_limit(reader.max_memory_mb, current_mb)
           THEN reader' = [reader EXCEPT !.state = "raised",
                                         !.raised = "MemoryError", !.df = d,
                                         !.start = start,
                                         !.current_mb = current_mb]
           ELSE reader' = [reader EXCEPT !.state = "suspended", !.df = d,
                                         !.start = start,
                                         !.current_mb = current_mb,
                                         !.yielded = Append(@, chunk)]
    /\ UNCHANGED <<cvars, gvars, ovars, wvars, bvars>>

ReadInit == CompactionInitOf(MaxReadRows) /\ NoGarbageCollection /\ NoOther

ReadNext ==
    \/ \E chunk_size \in ChunkSizes, max_memory_mb \in MemoryLimits :
          iceframe_read_table_chunked(chunk_size, max_memory_mb)
    \/ \E psutil_available \in BOOLEAN, rss_mb \in MemoryUsages :
          reader_next(psutil_available, rss_mb)
    \/ \E r \in AllRows : append_to_table(r)

SpecRead == ReadInit /\ [][ReadNext]_vars

\* The chunks yielded, one after the other
RECURSIVE Flatten(_)
Flatten(seqs) ==
    IF seqs = <<>> THEN <<>> ELSE Head(seqs) \o Flatten(Tail(seqs))

CeilDiv(n, k) == (n + k - 1) \div k

\* C21: in a chunked read with a memory limit set, a chunk at whose guard the
\* memory usage is above the limit is not yielded: the read ends there with
\* MemoryError, and nothing is committed to the table.
C21_MemoryLimitStopsRead ==
    [][(/\ reader.state \in {"created", "suspended"}
        /\ reader'.state \in {"suspended", "raised"}
        /\ reader'.raised # "ValueError"
        /\ reader'.max_memory_mb # None
        /\ reader'.current_mb > reader'.max_memory_mb)
          => /\ reader'.state = "raised"
             /\ reader'.raised = "MemoryError"
             /\ reader'.yielded = reader.yielded
             /\ cat' = cat]_vars

\* C28: a chunked read with chunk_size >= 1 and no memory limit, run to its
\* end over a table of n rows, has yielded ceil(n / chunk_size) chunks, which
\* one after the other are the table's rows in table order; every chunk but
\* the last has chunk_size rows, the last from 1 to chunk_size.
C28_ChunksPartitionTable ==
    (/\ reader.state = "exhausted"
     /\ reader.max_memory_mb = None
     /\ reader.chunk_size >= 1)
       => LET y == reader.yielded
              n == Len(reader.df)
          IN  /\ Len(y) = CeilDiv(n, reader.chunk_size)
              /\ Flatten(y) = reader.df
              /\ \A i \in 1..Len(y) :
                    /\ i < Len(y) => Len(y[i]) = reader.chunk_size
                    /\ Len(y[i]) >= 1
                    /\ Len(y[i]) <= reader.chunk_size
              /\ n = 0 => y = <<>>

C28_Witness ==
    /\ reader.state = "exhausted"
    /\ reader.max_memory_mb = None
    /\ reader.chunk_size = 2
    /\ Len(reader.df) = 3
    /\ Len(reader.yielded) = 2


(* ------------------------- branches and tags -------------------------- *)
BranchNames == {"dev", "main"}
TagNames == {"v1.0"}

\* The snapshot ids callers pass: ids of snapshots of the table and an id of
\* none of them
SnapshotIds == 1..(MaxSnaps + 1)

\* table.current_snapshot(): None for a table without a snapshot
current_snapshot(cur) == IF cur = 0 THEN None ELSE cur

\* (variant: the check for a snapshot to branch from is left out)
create_branch_raises_Unchecked(snapshot_id, cur) == "NotImplementedError"

\* The exception BranchManager.create_branch ends with: an omitted snapshot_id
\* is replaced by the current snapshot's, ValueError when there is none,
\* NotImplementedError otherwise
create_branch_raises(snapshot_id, cur) ==
    LET from == IF snapshot_id = None THEN current_snapshot(cur)
                ELSE snapshot_id
    IN  IF from = None THEN "ValueError" ELSE "NotImplementedError"

\* (variant: the snapshot to tag is looked up first)
tag_snapshot_raises_Checked(snapshot_id, ss) ==
    IF snapshot_id \in ss THEN "NotImplementedError" ELSE "ValueError"

\* The exception BranchManager.tag_snapshot ends with
tag_snapshot_raises(snapshot_id, ss) == "NotImplementedError"

\* IceFrame.create_branch(table_name, branch_name, snapshot_id): loads the
\* table and calls BranchManager.create_branch, which raises before any call
\* on the table that could change it
create_branch(branch_name, snapshot_id) ==
    /\ brLog' = [op |-> "create_branch", name |-> branch_name,
                 snapshot_id |-> snapshot_id,
                 raised |-> create_branch_raises(snapshot_id, current)]
    /\ UNCHANGED <<cvars, gvars, ovars, reader, wvars, refs>>

\* IceFrame.tag_snapshot(table_name, snapshot_id, tag_name)
tag_snapshot(snapshot_id, tag_name) ==
    /\ brLog' = [op |-> "tag_snapshot", name |-> tag_name,
                 snapshot_id |-> snapshot_id,
                 raised |-> tag_snapshot_raises(snapshot_id, snaps)]
    /\ UNCHANGED <<cvars, gvars, ovars, reader, wvars, refs>>

BranchInit == GcInit

BranchNext ==
    \/ write_file
    \/ \E keep, add \in SUBSET Files : commit_snapshot(keep, add)
    \/ \E branch_name \in BranchNames, snapshot_id \in {None} \cup SnapshotIds :
          create_branch(branch_name, snapshot_id)
    \/ \E snapshot_id \in SnapshotIds, tag_name \in TagNames :
          tag_snapshot(snapshot_id, tag_name)

SpecBranch == BranchInit /\ [][BranchNext]_vars

\* The snapshots and references of the table
TableRefs == <<snaps, snapTime, manifest, current, refs>>

\* C22 (as stated): create_branch raises NotImplementedError for every table,
\* branch name and snapshot_id, given or omitted, and leaves the table's
\* snapshots and references unchanged.
C22_CreateBranchNotImplemented ==
    [][\A branch_name \in BranchNames, snapshot_id \in {None} \cup SnapshotIds :
          create_branch(branch_name, snapshot_id)
            => /\ brLog'.raised = "NotImplementedError"
               /\ UNCHANGED TableRefs]_vars

\* C22 (amended): create_branch leaves the table's snapshots and references
\* unchanged and raises NotImplementedError, except that on a table without a
\* snapshot a call with snapshot_id omitted raises ValueError.
C22_CreateBranchRaises ==
    [][\A branch_name \in BranchNames, snapshot_id \in {None} \cup SnapshotIds :
          create_branch(branch_name, snapshot_id)
            => /\ (snapshot_id = None /\ snaps = {})
                     => brLog'.raised = "ValueError"
               /\ (snapshot_id # None \/ snaps # {})
                     => brLog'.raised = "NotImplementedError"
               /\ UNCHANGED TableRefs]_vars

C22_Witness ==
    /\ brLog.op = "create_branch"
    /\ brLog.snapshot_id = None
    /\ snaps = {}
    /\ brLog.raised = "ValueError"

\* C23: tag_snapshot raises NotImplementedError for every snapshot id and tag
\* name, and leaves the table's snapshots and references unchanged.
C23_TagSnapshotNotImplemented ==
    [][\A snapshot_id \in SnapshotIds, tag_name \in TagNames :
          tag_snapshot(snapshot_id, tag_name)
            => /\ brLog'.raised = "NotImplementedError"
               /\ UNCHANGED TableRefs]_vars

C23_Witness ==
    /\ brLog.op = "tag_snapshot"
    /\ brLog.snapshot_id \notin snaps
    /\ snaps # {}
    /\ brLog.raised = "NotImplementedError"


(* --------------------------- streaming writer ------------------------- *)
\* Bounds of the streams explored
MaxRecords == 3
MaxBatch == 2
MaxClock == 3

DefaultFlushInterval == 60

Records == {"a", "b"}
BatchSizes == 1..MaxBatch
FlushIntervals == {1, MaxClock}

\* StreamingWriter(ice_frame, table_name, batch_size, flush_interval_seconds)
StreamingWriter(batch_size, flush_interval_seconds, t) ==
    [buffer |-> <<>>, last_flush |-> t, batch_size |-> batch_size,
     flush_interval |-> flush_interval_seconds]

\* (variant: a single buffered record is not worth a flush)
NothingToFlush_Single(buffer) == Len(buffer) <= 1

\* if not self._buffer: return
NothingToFlush(buffer) == buffer = <<>>

\* (variant: the buffer is cleared before the append is known to have worked)
FailedAppend_Cleared(w) == [w EXCEPT !.buffer = <<>>]

\* The writer after append_to_table raised: lines 58-59 are not reached
FailedAppend(w) == w

\* flush() at time t: nothing to do on an empty buffer; otherwise the buffer
\* is appended to the table as one batch, and only then cleared and the
\* last-flush time set. An append that raises appends nothing.
flush(w, append_ok, t) ==
    IF NothingToFlush(w.buffer)
    THEN [writer |-> w, batch |-> <<>>, tried |-> FALSE, raised |-> "none"]
    ELSE IF ~append_ok
    THEN [writer |-> FailedAppend(w), batch |-> <<>>, tried |-> TRUE,
          raised |-> "Exception"]
    ELSE [writer |-> [w EXCEPT !.buffer = <<>>, !.last_flush = t],
          batch |-> w.buffer, tried |-> TRUE, raised |-> "none"]

\* write(record) at time t: the record is buffered, and the buffer flushed
\* when it holds batch_size records or the interval has elapsed
write(w, record, append_ok, t) ==
    LET buffered == [w EXCEPT !.buffer = Append(@, record)]
    IN  IF \/ Len(buffered.buffer) >= w.batch_size
           \/ t - w.last_flush >= w.flush_interval
        THEN flush(buffered, append_ok, t)
        ELSE [writer |-> buffered, batch |-> <<>>, tried |-> FALSE,
              raised |-> "none"]

\* The table after the call: the batch appended, if one was
Appended(bs, result) ==
    IF result.batch = <<>> THEN bs ELSE Append(bs, result.batch)

WriterLog(op, before, result) ==
    [op |-> op, raised |-> result.raised, tried |-> result.tried,
     buffer |-> before.buffer, last_flush |-> before.last_flush]

writer_write(record, append_ok) ==
    /\ Len(accepted) < MaxRecords
    /\ LET result == write(writer, record, append_ok, clock)
       IN  /\ writer' = result.writer
           /\ batches' = Appended(batches, result)
           /\ wrLog' = WriterLog("write",
                                 [writer EXCEPT !.buffer = Append(@, record)],
                                 result)
    /\ accepted' = Append(accepted, record)
    /\ UNCHANGED <<cvars, gvars, ovars, reader, clock, kafka, bvars>>

writer_flush(append_ok) ==
    /\ LET result == flush(writer, append_ok, clock)
       IN  /\ writer' = result.writer
           /\ batches' = Appended(batches, result)
           /\ wrLog' = WriterLog("flush", writer, result)
    /\ UNCHANGED <<cvars, gvars, ovars, reader, accepted, clock, kafka, bvars>>

\* close() is flush()
writer_close(append_ok) ==
    /\ LET result == flush(writer, append_ok, clock)
       IN  /\ writer' = result.writer
           /\ batches' = Appended(batches, result)
           /\ wrLog' = WriterLog("close", writer, result)
    /\ UNCHANGED <<cvars, gvars, ovars, reader, accepted, clock, kafka, bvars>>

\* A second passes
ClockTick ==
    /\ clock < MaxClock
    /\ clock' = clock + 1
    /\ UNCHANGED <<cvars, gvars, ovars, reader, writer, batches, accepted,
                   wrLog, kafka, bvars>>

StreamInit ==
    /\ NoCompaction
    /\ NoGarbageCollection
    /\ NoDispatch
    /\ reader = NoReader
    /\ NoBranching
    /\ \E batch_size \in BatchSizes, flush_interval_seconds \in FlushIntervals :
          writer = StreamingWriter(batch_size, flush_interval_seconds, 0)
    /\ batches = <<>>
    /\ accepted = <<>>
    /\ wrLog = NoWrite
    /\ clock = 0
    /\ kafka = NoKafka

StreamNext ==
    \/ \E record \in Records, append_ok \in BOOLEAN :
          writer_write(record, append_ok)
    \/ \E append_ok \in BOOLEAN : writer_flush(append_ok)
    \/ \E append_ok \in BOOLEAN : writer_close(append_ok)
    \/ ClockTick

SpecStream == StreamInit /\ [][StreamNext]_vars

\* C24: after close has returned normally the buffer is empty, and the
\* records appended to the table are all the records passed to write.
C24_CloseFlushesEverything ==
    (wrLog.op = "close" /\ wrLog.raised = "none")
       => /\ writer.buffer = <<>>
          /\ Flatten(batches) = accepted

C24_Witness ==
    /\ wrLog.op = "close"
    /\ wrLog.raised = "none"
    /\ wrLog.tried
    /\ Len(batches) >= 2
    /\ Len(accepted) = MaxRecords

\* C25: a record that write accepted is appended to the table no later than
\* flush_interval_seconds after the previous flush: while the buffer holds a
\* record, no more than the interval has passed since the last flush.
C25_FlushWithinInterval ==
    (writer.buffer # <<>> /\ wrLog.raised = "none")
       => clock - writer.last_flush <= writer.flush_interval

\* C26: the buffer never holds more than batch_size records, and no batch
\* appended to the table has more than batch_size records, also after appends
\* that raised.
C26_BatchSizeBounds ==
    /\ Len(writer.buffer) <= writer.batch_size
    /\ \A i \in 1..Len(batches) : Len(batches[i]) <= writer.batch_size

\* C27: the batches appended, in order, followed by the buffer are the
\* records passed to write, in order; and a flush that failed has left the
\* buffer and the last-flush time as they were.
C27_NoLossNoDuplicateNoReorder ==
    /\ Flatten(batches) \o writer.buffer = accepted
    /\ wrLog.raised # "none"
         => /\ writer.buffer = wrLog.buffer
            /\ writer.last_flush = wrLog.last_flush

C27_Witness ==
    /\ wrLog.raised # "none"
    /\ wrLog.op = "write"
    /\ Len(batches) >= 1
    /\ Len(writer.buffer) >= 2


(* ------------------------------ Kafka loop ---------------------------- *)
\* stream_from_kafka(ice_frame, kafka_topic, table_name, kafka_config,
\* batch_size) up to its loop: the consumer is opened and a writer built with
\* the default flush interval; messages is the number of messages the topic
\* delivers before the stream ends
stream_from_kafka(batch_size, messages) ==
    /\ kafka.pc = "none"
    /\ kafka' = [pc |-> "consuming", consumer |-> "open", exit |-> "none",
                 raised |-> "none", left |-> messages]
    /\ writer' = StreamingWriter(batch_size, DefaultFlushInterval, clock)
    /\ UNCHANGED <<cvars, gvars, ovars, reader, batches, accepted, wrLog,
                   clock, bvars>>

\* for message in consumer: writer.write(message.value); an error raised by
\* the write leaves the loop for the finally clause
kafka_message(record, append_ok) ==
    /\ kafka.pc = "consuming"
    /\ kafka.left > 0
    /\ LET result == write(writer, record, append_ok, clock)
       IN  /\ writer' = result.writer
           /\ batches' = Appended(batches, result)
           /\ wrLog' = WriterLog("write",
                                 [writer EXCEPT !.buffer = Append(@, record)],
                                 result)
           /\ kafka' = IF result.raised = "none"
                       THEN [kafka EXCEPT !.left = @ - 1]
                       ELSE [kafka EXCEPT !.pc = "finally", !.exit = "error",
                                          !.raised = result.raised]
    /\ accepted' = Append(accepted, record)
    /\ UNCHANGED <<cvars, gvars, ovars, reader, clock, bvars>>

\* The message stream ends
kafka_end ==
    /\ kafka.pc = "consuming"
    /\ kafka.left = 0
    /\ kafka' = [kafka EXCEPT !.pc = "finally", !.exit = "end"]
    /\ UNCHANGED <<cvars, gvars, ovars, reader, writer, batches, accepted,
                   wrLog, clock, bvars>>

\* except KeyboardInterrupt: pass
kafka_KeyboardInterrupt ==
    /\ kafka.pc = "consuming"
    /\ kafka' = [kafka EXCEPT !.pc = "finally", !.exit = "KeyboardInterrupt"]
    /\ UNCHANGED <<cvars, gvars, ovars, reader, writer, batches, accepted,
                   wrLog, clock, bvars>>

\* finally: writer.close() and then consumer.close(): the second statement
\* runs only when the first returns
kafka_finally(append_ok) ==
    /\ kafka.pc = "finally"
    /\ LET result == flush(writer, append_ok, clock)
       IN  /\ writer' = result.writer
           /\ batches' = Appended(batches, result)
           /\ wrLog' = WriterLog("close", writer, result)
           /\ kafka' = IF result.raised = "none"
                       THEN [kafka EXCEPT !.pc = "exited",
                                          !.consumer = "closed"]
                       ELSE [kafka EXCEPT !.pc = "exited",
                                          !.raised = result.raised]
    /\ UNCHANGED <<cvars, gvars, ovars, reader, accepted, clock, bvars>>

KafkaInit == NoCompaction /\ NoGarbageCollection /\ NoOther

KafkaNext ==
    \/ \E batch_size \in BatchSizes, messages \in 0..MaxRecords :
          stream_from_kafka(batch_size, messages)
    \/ \E record \in Records, append_ok \in BOOLEAN :
          kafka_message(record, append_ok)
    \/ kafka_end
    \/ kafka_KeyboardInterrupt
    \/ \E append_ok \in BOOLEAN : kafka_finally(append_ok)

SpecKafka == KafkaInit /\ [][KafkaNext]_vars

\* C30: however the consume loop of stream_from_kafka was left (end of the
\* message stream, KeyboardInterrupt, an error raised by a write or flush),
\* the Kafka consumer has been closed when the function is left.
C30_ConsumerClosedOnExit ==
    kafka.pc = "exited" => kafka.consumer = "closed"


(* ------------------------- dispatched operations ---------------------- *)
\* The names StoredProcedures.call has a branch for
Recognised ==
    {"rewrite_data_files", "expire_snapshots", "remove_orphan_files",
     "fast_forward"}

\* C29: a dispatcher call whose name, in lower case, is one of the four the
\* dispatcher has a branch for reaches an operation its manager has (it does
\* not end with AttributeError), and the unknown-procedure ValueError is
\* raised for exactly the other names.
C29_RecognisedNamesDispatch ==
    procLog.name # "none" =>
        /\ procLog.proc \in Recognised => procLog.raised # "AttributeError"
        /\ (procLog.proc \notin Recognised) <=> (procLog.raised = "ValueError")

====
